---- MODULE Spec2Model ----
(***************************************************************************)
(* Model of the shopify-translator batching pipeline:                      *)
(*   TranslationService (js/translation-service.js),                       *)
(*   ShopifyAPI (js/shopify-api.js) and the job handlers of the main       *)
(*   application file.                                                     *)
(*                                                                         *)
(* Strings are sequences of symbols.  " " is a whitespace character, "|"   *)
(* a pipe; every other symbol stands for a non-empty run of characters     *)
(* that holds neither whitespace nor a pipe.                               *)
(***************************************************************************)
EXTENDS Integers, Sequences, FiniteSets, TLC

\* ------------------------------------------------------------- bounds
MaxTexts == 25          \* longest request list handed to batchTranslate
MaxRuns == 2            \* batchTranslate calls in one behaviour
MaxFnTexts == 7         \* longest list handed to createBatches on its own
MaxFnSize == 4          \* largest batch size handed to createBatches on its own
MaxContentLen == 7      \* longest response content handed to parseBatchResponse on its own
MaxFnBatch == 3         \* largest batch handed to parseBatchResponse on its own
MaxClicks == 1          \* handlers one button starts in one behaviour
MaxItems == 2           \* records of one kind the store lists
MaxItemTexts == 2       \* translatable selected fields of one record
MaxMarkupLen == 3       \* longest markup (tags and text nodes) handed to restoreHTML
MaxBodyLen == 2         \* longest body_html (tags and text nodes) of a record
MaxStoreCalls == 5      \* makeRequest calls on one ShopifyAPI in one behaviour
MaxWindows == 2         \* pacing windows the clock runs for

\* ------------------------------------------------- program constants
batchSize == 10         \* this.batchSize
InterBatchDelayMs == 1000
RateLimitFloor == 2      \* this.rateLimitRemaining <= 2
PacingWindowMs == 1000   \* timeSinceLastRequest < 1000

\* ------------------------------------------------------------ strings
Space == " "
Pipe == "|"
Delimiter == <<Pipe, Pipe, Pipe>>

Min(a, b) == IF a < b THEN a ELSE b

\* String.prototype.trim
RECURSIVE TrimLeft(_)
TrimLeft(s) ==
    IF s # <<>> /\ Head(s) = Space THEN TrimLeft(Tail(s)) ELSE s

RECURSIVE TrimRight(_)
TrimRight(s) ==
    IF s # <<>> /\ s[Len(s)] = Space THEN TrimRight(SubSeq(s, 1, Len(s) - 1)) ELSE s

Trim(s) == TrimRight(TrimLeft(s))

\* position of the leftmost "|||" in s, 0 when there is none
DelimiterAt(s, k) ==
    /\ k + 2 <= Len(s)
    /\ s[k] = Pipe /\ s[k + 1] = Pipe /\ s[k + 2] = Pipe

FirstDelimiter(s) ==
    IF \E k \in 1..Len(s) : DelimiterAt(s, k)
    THEN CHOOSE k \in 1..Len(s) :
            DelimiterAt(s, k) /\ \A j \in 1..(k - 1) : ~DelimiterAt(s, j)
    ELSE 0

\* String.prototype.split('|||')
RECURSIVE Split(_)
Split(s) ==
    LET k == FirstDelimiter(s)
    IN  IF k = 0
        THEN <<s>>
        ELSE <<SubSeq(s, 1, k - 1)>> \o Split(SubSeq(s, k + 3, Len(s)))

\* Array.prototype.slice(from, to) on 0-based indices
Slice(a, from, to) == SubSeq(a, from + 1, Min(to, Len(a)))

\* ---------------------------------------------------- TranslationService

\* createBatches(texts, batchSize): the loop of lines 106-108 from index i on
RECURSIVE BatchesFrom(_, _, _)
BatchesFrom(ts, size, i) ==
    IF i < Len(ts)
    THEN <<Slice(ts, i, i + size)>> \o BatchesFrom(ts, size, i + size)
    ELSE <<>>

createBatchesShortSlice(ts, size) ==
    [b \in 1..Len(BatchesFrom(ts, size, 0)) |->
        LET full == BatchesFrom(ts, size, 0)[b]
        IN  IF Len(full) = size /\ size > 1 THEN SubSeq(full, 1, size - 1) ELSE full]

createBatches(ts, size) == BatchesFrom(ts, size, 0)

\* { ...item, translatedText: t }
WithTranslation(item, t) ==
    [field |-> item.field, itemId |-> item.itemId,
     originalText |-> item.originalText, translatedText |-> t]

\* batch.map(item => ({ ...item, translatedText: item.originalText }))
EchoDropped(batch) == <<>>

EchoEmpty(batch) == [k \in 1..Len(batch) |-> WithTranslation(batch[k], <<>>)]

EchoResults(batch) ==
    [k \in 1..Len(batch) |-> WithTranslation(batch[k], batch[k].originalText)]

\* translations[index] || item.originalText   (index is 0-based in the code)
PieceOrOriginalNoFallback(translations, index, item) ==
    IF index + 1 <= Len(translations) THEN translations[index + 1] ELSE <<>>

PieceOrOriginalShifted(translations, index, item) ==
    IF index + 2 <= Len(translations) /\ translations[index + 2] # <<>>
    THEN translations[index + 2]
    ELSE item.originalText

PieceOrOriginalKeepsEmpty(translations, index, item) ==
    IF index + 1 <= Len(translations) THEN translations[index + 1] ELSE item.originalText

PieceOrOriginal(translations, index, item) ==
    IF index + 1 <= Len(translations) /\ translations[index + 1] # <<>>
    THEN translations[index + 1]
    ELSE item.originalText

\* what a block of code ends with: a value returned or an exception raised
Returned(v) == [raised |-> FALSE, value |-> v]
Raised == [raised |-> TRUE, value |-> <<>>]

\* the try block of parseBatchResponse, lines 160-166.  data.hasContent is
\* FALSE when response.choices[0].message.content.trim() raises a TypeError
\* (no choices, no message, content that is not a string).
ParseTry(data, originalBatch) ==
    IF data.hasContent
    THEN LET translatedText == Trim(data.content)
             pieces == Split(translatedText)
             translations == [k \in 1..Len(pieces) |-> Trim(pieces[k])]
         IN  Returned([k \in 1..Len(originalBatch) |->
                WithTranslation(originalBatch[k],
                                PieceOrOriginal(translations, k - 1, originalBatch[k]))])
    ELSE Raised

\* the catch block of parseBatchResponse, lines 167-170
ParseCatchRethrows(attempt, originalBatch) == attempt

ParseCatch(attempt, originalBatch) ==
    IF attempt.raised
    THEN Returned([k \in 1..Len(originalBatch) |->
            WithTranslation(originalBatch[k], originalBatch[k].originalText)])
    ELSE attempt

\* parseBatchResponse(response, originalBatch): how it ends, and what it returns
ParseOutcome(data, originalBatch) ==
    ParseCatch(ParseTry(data, originalBatch), originalBatch)

parseBatchResponse(data, originalBatch) == ParseOutcome(data, originalBatch).value


\* ------------------------------------------------------------ state
VARIABLES
    apiKey,             \* TranslationService.apiKey
    totalTokensUsed,    \* TranslationService.totalTokensUsed
    requestCount,       \* TranslationService.requestCount
    btPc,               \* where the batchTranslate call stands
    texts,              \* batchTranslate: its argument
    batches,            \* batchTranslate: const batches
    i,                  \* batchTranslate: the loop index
    results,            \* batchTranslate: const results
    openaiInFlight,     \* fetches to the translation endpoint not yet answered
    sent,               \* the requests the translation endpoint has received
    outcomes,           \* what the translation endpoint answered, call by call
    delays,             \* the delay(ms) timers started
    progressLog,        \* the calls of window.updateProgress
    handlerThrows,      \* whether window.updateProgress raises
    runs,               \* batchTranslate calls made so far
    fnPc,               \* a function applied on its own: "input" or "done"
    fnOp,               \* which function
    fnTexts,            \* its list argument
    fnSize,             \* createBatches: batchSize
    fnData,             \* parseBatchResponse: response
    fnOut,              \* its return value
    fnRaised,           \* whether it raised instead of returning
    fnArgs,             \* its other arguments, by name
    loading,            \* setLoadingState: every button is disabled
    clicks,             \* clicks handled so far, per button
    lastClick,          \* the latest click: what was selected, what error it logged
    hPc,                \* where the running handler stands
    hKind,              \* translate job: "product", "collection" or "page"
    jobIds,             \* translate job: selectedIds
    ji,                 \* translate job: the loop index
    jobStatus,          \* translate job: "none", "running", "completed", "failed"
    jobLog,             \* translate job: what it asked of the store and the service
    isConnected,        \* ShopifyAPI.isConnected
    rateLimitRemaining, \* ShopifyAPI.rateLimitRemaining
    storeWaiting,       \* content-store calls suspended in waitForRateLimit, by caller
    storeInFlight,      \* content-store fetches not yet answered, by caller
    awaited,            \* loadInitialData: the list calls Promise.all still waits for
    listed,             \* the ids each list of the page shows for selection
    now,                \* Date.now(), in ms
    lastRequestTime,    \* ShopifyAPI.lastRequestTime
    accessToken,        \* ShopifyAPI.apiKey, sent as X-Shopify-Access-Token
    storeCalls,         \* the makeRequest call each caller has in progress
    storeSeen           \* what makeRequest and connect did last, for the record

svcVars == <<apiKey, totalTokensUsed, requestCount>>
btVars == <<btPc, texts, batches, i, results>>
envVars == <<openaiInFlight, sent, outcomes, delays, progressLog, handlerThrows, runs>>
fnVars == <<fnPc, fnOp, fnTexts, fnSize, fnData, fnOut, fnRaised, fnArgs>>
jobVars == <<hKind, jobIds, ji, jobStatus, jobLog>>
storeVars == <<isConnected, rateLimitRemaining, storeWaiting, storeInFlight>>
clickVars == <<clicks, lastClick>>
apiVars == <<now, lastRequestTime, accessToken, storeCalls, storeSeen>>
appVars == <<loading, clickVars, hPc, jobVars, storeVars, awaited, listed, apiVars>>

\* ShopifyAPI and the application
InitialRateLimit == 40
ListOps == {"getProducts", "getCollections", "getPages"}
Owners == {"handler"} \cup ListOps
Kinds == {"product", "collection", "page"}
Lists == Kinds \cup {"widget"}
Buttons == {"connect", "translate", "detect", "widgets"}

\* a click: the button, whether a field was ticked, whether no entry of the
\* list was ticked, and the error the handler logged before returning
Click(button, hasSelectedFields, noneSelected, error) ==
    [button |-> button, hasSelectedFields |-> hasSelectedFields,
     noneSelected |-> noneSelected, error |-> error]

NoClick == Click("none", FALSE, FALSE, "none")

NoKey == "null"

\* the header X-Shopify-Shop-Api-Call-Limit of an answer, "used/total"
NoHeader == [present |-> FALSE, used |-> 0, total |-> 0]

\* nothing has been asked of the store yet: no call begun, no connect ended, no
\* fetch answered
NothingSeen ==
    [begun |-> 0, connect |-> "none", connectToken |-> NoKey, lifted |-> FALSE,
     answered |-> "nobody", outcome |-> "none", header |-> NoHeader,
     settled |-> "none"]

\* the access tokens a store may be connected with
AccessTokens == {"token-a", "token-b"}

\* no makeRequest call in progress
NoCall ==
    [st |-> "idle", endpoint |-> "none", enteredAt |-> 0, lastSeen |-> 0,
     remainingSeen |-> 0, wakeAt |-> 0, alone |-> TRUE, token |-> NoKey]
Keys == {"sk-key"}

\* the request objects validateFieldsForTranslation and extractWidgetTexts build
FieldNames == <<"title", "description", "tags">>

MakeText(k) ==
    [field |-> FieldNames[((k - 1) % 3) + 1],
     itemId |-> ((k - 1) \div 3) + 1,
     originalText |-> <<ToString(k)>>]

MakeTexts(n) == [k \in 1..n |-> MakeText(k)]

\* ------------------------------------------------ the translation endpoint
\* what the model answers for one source text
Translated(text) == <<"T">> \o text

RECURSIVE Join(_, _)
Join(pieces, sep) ==
    IF Len(pieces) = 0 THEN <<>>
    ELSE IF Len(pieces) = 1 THEN pieces[1]
    ELSE pieces[1] \o sep \o Join(Tail(pieces), sep)

Shapes == {"full", "short", "extra", "blank", "padded", "empty"}

\* choices[0].message.content, for each way the model may keep or break the
\* "same count, same order" instruction of createBatchPrompt
ResponseContent(shape, batch) ==
    LET full == [k \in 1..Len(batch) |-> Translated(batch[k].originalText)]
    IN  CASE shape = "full"   -> Join(full, Delimiter)
          [] shape = "short"  -> Join(SubSeq(full, 1, Len(full) - 1), Delimiter)
          [] shape = "extra"  -> Join(Append(full, <<"X">>), Delimiter)
          [] shape = "blank"  -> Join([full EXCEPT ![1] = <<Space>>], Delimiter)
          [] shape = "padded" -> <<Space>> \o Join(full, <<Space>> \o Delimiter \o <<Space>>)
                                    \o <<Space>>
          [] shape = "empty"  -> <<>>

TokenCounts == {3}

\* the JSON bodies of a 2xx answer: with or without a usage object, with a
\* content of one of the shapes or without a usable content
OkBody(u, t, s, batch) ==
    [hasUsage |-> u, total_tokens |-> IF u THEN t ELSE 0,
     hasContent |-> s # "malformed", shape |-> s,
     content |-> IF s = "malformed" THEN <<>> ELSE ResponseContent(s, batch)]

OkBodies(batch) ==
    {OkBody(u, t, s, batch) : u \in BOOLEAN, t \in TokenCounts, s \in {"full", "malformed"}}
    \cup
    {OkBody(TRUE, t, s, batch) : t \in TokenCounts, s \in Shapes}

NoBody == [hasUsage |-> FALSE, total_tokens |-> 0,
           hasContent |-> FALSE, shape |-> "none", content |-> <<>>]

\* the ways makeOpenAIRequest raises: fetch rejects (181), !response.ok (190),
\* response.json() rejects (195), the body is null so data.usage raises (198)
FailureKinds == {"network_error", "http_error", "invalid_json", "null_body"}

\* ------------------------------------------------------ batchTranslate
\* lines 29-35: the two early exits, in the code's order
EntryCheckEmptyFirst(key, ts) ==
    IF Len(ts) = 0 THEN "empty"
    ELSE IF key = NoKey THEN "throw"
    ELSE "run"

EntryCheck(key, ts) ==
    IF key = NoKey THEN "throw"
    ELSE IF Len(ts) = 0 THEN "empty"
    ELSE "run"

\* line 56: if (i < batches.length - 1)
DelayNeededAlways(idx, count) == TRUE

DelayNeeded(idx, count) == idx < count - 1

\* the catch of line 59 falls through to the loop's i++
IndexAfterCatchAbort(idx, count) == count

IndexAfterCatchRetry(idx, count) == idx

IndexAfterCatch(idx, count) == idx + 1

\* makeOpenAIRequest goes from the apiKey check straight to fetch (177-188) and
\* from the answer to the token tracking (190-208): TranslationService holds
\* no allowance and no timestamp, and nothing like ShopifyAPI.waitForRateLimit
\* or updateRateLimit runs around the call
PacingCheckBeforeFetch == FALSE
RateUpdateAfterFetch == FALSE

\* translateBatch -> makeOpenAIRequest -> fetch for batch number idx (0-based),
\* or the end of the loop.  apiKey is never cleared once set (setApiKey is only
\* called with a non-empty key), so the check of line 177 passes whenever the
\* check of line 29 did.
ProceedTwoAtOnce(idx, bs, log, answered) ==
    /\ i' = idx
    /\ IF idx < Len(bs)
       THEN /\ btPc' = "await"
            /\ sent' = log \o [k \in 1..Min(2, Len(bs) - idx) |->
                                 [batch |-> idx + k, texts |-> bs[idx + k],
                                  paced |-> PacingCheckBeforeFetch]]
            /\ openaiInFlight' = openaiInFlight - answered + Min(2, Len(bs) - idx)
       ELSE /\ btPc' = "returned"
            /\ sent' = log
            /\ openaiInFlight' = openaiInFlight - answered

ProceedNeverReturns(idx, bs, log, answered) ==
    /\ i' = idx
    /\ IF idx < Len(bs)
       THEN /\ btPc' = "await"
            /\ sent' = Append(log, [batch |-> idx + 1, texts |-> bs[idx + 1],
                                     paced |-> PacingCheckBeforeFetch])
            /\ openaiInFlight' = openaiInFlight - answered + 1
       ELSE /\ btPc' = "pending"
            /\ sent' = log
            /\ openaiInFlight' = openaiInFlight - answered

Proceed(idx, bs, log, answered) ==
    /\ i' = idx
    /\ IF idx < Len(bs)
       THEN /\ btPc' = "await"
            /\ sent' = Append(log, [batch |-> idx + 1, texts |-> bs[idx + 1],
                                     paced |-> PacingCheckBeforeFetch])
            /\ openaiInFlight' = openaiInFlight - answered + 1
       ELSE /\ btPc' = "returned"
            /\ sent' = log
            /\ openaiInFlight' = openaiInFlight - answered

\* batchTranslate(texts, ...) up to its first await
BeginBatchTranslate(ts) ==
    /\ runs' = runs + 1
    /\ texts' = ts
    /\ outcomes' = <<>>
    /\ delays' = <<>>
    /\ progressLog' = <<>>
    /\ results' = <<>>
    /\ LET entry == EntryCheck(apiKey, ts)
       IN  CASE entry = "throw" ->
                    /\ btPc' = "threw"
                    /\ batches' = <<>>
                    /\ i' = 0
                    /\ sent' = <<>>
                    /\ UNCHANGED openaiInFlight
             [] entry = "empty" ->
                    /\ btPc' = "returned"
                    /\ batches' = <<>>
                    /\ i' = 0
                    /\ sent' = <<>>
                    /\ UNCHANGED openaiInFlight
             [] entry = "run" ->
                    /\ batches' = createBatches(ts, batchSize)
                    /\ Proceed(0, createBatches(ts, batchSize), <<>>, 0)

\* a caller of the service calls batchTranslate with n requests
batchTranslate(n) ==
    /\ btPc \in {"idle", "returned", "threw"}
    /\ runs < MaxRuns
    /\ BeginBatchTranslate(MakeTexts(n))
    /\ UNCHANGED <<svcVars, handlerThrows, fnVars, appVars>>

\* makeOpenAIRequest raises at line 181, 192, 195 or 198: the token tracking
\* of lines 199-200 is not reached
RequestsAfterThrowCounted(count) == count + 1

RequestsAfterThrow(count) == count

\* the fetch of batch i fails: lines 59-63
ReceiveFailure(kind) ==
    /\ btPc = "await"
    /\ outcomes' = Append(outcomes, [kind |-> kind, body |-> NoBody,
                                     rateUpdated |-> RateUpdateAfterFetch])
    /\ results' = results \o EchoResults(batches[i + 1])
    /\ Proceed(IndexAfterCatch(i, Len(batches)), batches, sent, 1)
    /\ requestCount' = RequestsAfterThrow(requestCount)
    /\ UNCHANGED <<apiKey, totalTokensUsed, texts, batches, delays, progressLog,
                   handlerThrows, runs, fnVars, appVars>>

\* lines 198-208: token tracking
TokensAfterLastOnly(total, data) == IF data.hasUsage THEN data.total_tokens ELSE 0

TokensAfter(total, data) == IF data.hasUsage THEN total + data.total_tokens ELSE total

RequestsAfterEveryAnswer(count, data) == count + 1

RequestsAfter(count, data) == IF data.hasUsage THEN count + 1 ELSE count

\* the fetch of batch i is answered 2xx with a JSON body: lines 195-210, 98, 48-58
ReceiveOk(data) ==
    /\ btPc = "await"
    /\ data \in OkBodies(batches[i + 1])
    /\ outcomes' = Append(outcomes, [kind |-> "ok", body |-> data,
                                     rateUpdated |-> RateUpdateAfterFetch])
    /\ totalTokensUsed' = TokensAfter(totalTokensUsed, data)
    /\ requestCount' = RequestsAfter(requestCount, data)
    /\ LET pushed == results \o parseBatchResponse(data, batches[i + 1])
       IN  IF handlerThrows
           THEN \* window.updateProgress raises inside the try: the catch runs
                /\ results' = pushed \o EchoResults(batches[i + 1])
                /\ Proceed(IndexAfterCatch(i, Len(batches)), batches, sent, 1)
                /\ UNCHANGED <<delays, progressLog>>
           ELSE /\ results' = pushed
                /\ progressLog' = Append(progressLog, <<i + 1, Len(batches)>>)
                /\ IF DelayNeeded(i, Len(batches))
                   THEN /\ btPc' = "delay"
                        /\ delays' = Append(delays, [after |-> i + 1, ms |-> InterBatchDelayMs])
                        /\ openaiInFlight' = openaiInFlight - 1
                        /\ UNCHANGED <<i, sent>>
                   ELSE /\ Proceed(i + 1, batches, sent, 1)
                        /\ UNCHANGED delays
    /\ UNCHANGED <<apiKey, texts, batches, handlerThrows, runs, fnVars, appVars>>

\* the timer of delay(1000) fires: the loop goes on with i++
DelayElapsed ==
    /\ btPc = "delay"
    /\ Proceed(i + 1, batches, sent, 0)
    /\ UNCHANGED <<svcVars, texts, batches, results, outcomes, delays, progressLog,
                   handlerThrows, runs, fnVars, appVars>>

\* setApiKey(apiKey), as connectToStore and loadDemoData call it
setApiKey(key) ==
    /\ apiKey' = key
    /\ UNCHANGED <<totalTokensUsed, requestCount, btVars, envVars, fnVars, appVars>>

\* resetStats()
resetStats ==
    /\ totalTokensUsed' = 0
    /\ requestCount' = 0
    /\ UNCHANGED <<apiKey, btVars, envVars, fnVars, appVars>>

vars == <<svcVars, btVars, envVars, fnVars, appVars>>

InitService ==
    /\ apiKey = NoKey
    /\ totalTokensUsed = 0
    /\ requestCount = 0

InitRun ==
    /\ btPc = "idle"
    /\ texts = <<>>
    /\ batches = <<>>
    /\ i = 0
    /\ results = <<>>
    /\ openaiInFlight = 0
    /\ sent = <<>>
    /\ outcomes = <<>>
    /\ delays = <<>>
    /\ progressLog = <<>>
    /\ runs = 0

\* no function is being applied on its own
InitFnIdle ==
    /\ fnPc = "idle"
    /\ fnOp = "none"
    /\ fnTexts = <<>>
    /\ fnSize = 0
    /\ fnData = NoBody
    /\ fnOut = <<>>
    /\ fnRaised = FALSE
    /\ fnArgs = <<>>

\* the application as initializeApp leaves it: nothing connected, nothing listed
InitApp ==
    /\ loading = FALSE
    /\ clicks = [b \in Buttons |-> 0]
    /\ lastClick = NoClick
    /\ hPc = "idle"
    /\ hKind = "none"
    /\ jobIds = <<>>
    /\ ji = 0
    /\ jobStatus = "none"
    /\ jobLog = <<>>
    /\ isConnected = FALSE
    /\ rateLimitRemaining = InitialRateLimit
    /\ storeWaiting = [o \in Owners |-> 0]
    /\ storeInFlight = [o \in Owners |-> 0]
    /\ awaited = [op \in ListOps |-> [st |-> "idle", ids |-> {}]]
    /\ listed = [k \in Lists |-> {}]
    /\ now = PacingWindowMs
    /\ lastRequestTime = 0
    /\ accessToken = NoKey
    /\ storeCalls = [o \in Owners |-> NoCall]
    /\ storeSeen = NothingSeen

\* window.updateProgress is the application's updateProgress, which sets the
\* text of the progress element and returns
Init ==
    /\ InitService
    /\ InitRun
    /\ InitFnIdle
    /\ InitApp
    /\ handlerThrows = FALSE

\* the 2xx bodies the endpoint may answer the request in flight with
PossibleBodies == IF btPc = "await" THEN OkBodies(batches[i + 1]) ELSE {}

\* the lengths of the request lists: every length of up to two batches and one
\* request, and the longest
RunLengths == {n \in 0..MaxTexts : n <= 2 * batchSize + 1 \/ n = MaxTexts}

Next ==
    \/ \E key \in Keys : setApiKey(key)
    \/ resetStats
    \/ \E n \in RunLengths : batchTranslate(n)
    \/ \E kind \in FailureKinds : ReceiveFailure(kind)
    \/ \E data \in PossibleBodies : ReceiveOk(data)
    \/ DelayElapsed

Spec == Init /\ [][Next]_vars

\* window.updateProgress is whatever the page has put there: updateProgress
\* raises a TypeError when the page has no 'translation-progress' element
InitProgress ==
    /\ InitService
    /\ InitRun
    /\ InitFnIdle
    /\ InitApp
    /\ handlerThrows \in BOOLEAN

SpecProgress == InitProgress /\ [][Next]_vars

\* the endpoint answers the fetch in flight, one way or the other
FetchSettled ==
    \/ \E kind \in FailureKinds : ReceiveFailure(kind)
    \/ \E data \in PossibleBodies : ReceiveOk(data)

\* every fetch is answered or fails in the end, and every timer fires
SpecLive == Spec /\ WF_vars(FetchSettled) /\ WF_vars(DelayElapsed)


\* ------------------------------------------- functions applied on their own
Alphabet == {"a", Space, Pipe}

StringsUpTo(n) == UNION {[1..k -> Alphabet] : k \in 0..n}

\* a response whose choices[0].message.content is the string c
BodyWithContent(c) ==
    [hasUsage |-> FALSE, total_tokens |-> 0, hasContent |-> TRUE, shape |-> "any",
     content |-> c]

\* the responses whose choices[0].message.content.trim() raises
MalformedKinds == {"no_choices", "empty_choices", "no_message", "null_content",
                   "number_content"}

MalformedBody(kind) ==
    [hasUsage |-> FALSE, total_tokens |-> 0, hasContent |-> FALSE, shape |-> kind,
     content |-> <<>>]

InitFn ==
    /\ InitService
    /\ InitRun
    /\ InitApp
    /\ handlerThrows = FALSE
    /\ fnPc = "input"
    /\ fnOut = <<>>
    /\ fnRaised = FALSE
    /\ fnArgs = <<>>
    /\ \/ /\ fnOp = "createBatches"
          /\ \E n \in 0..MaxFnTexts : fnTexts = MakeTexts(n)
          /\ fnSize \in 1..MaxFnSize
          /\ fnData = NoBody
       \/ /\ fnOp = "parseBatchResponse"
          /\ \E n \in 1..MaxFnBatch : fnTexts = MakeTexts(n)
          /\ fnSize = 0
          /\ fnData \in {BodyWithContent(c) : c \in StringsUpTo(MaxContentLen)}
                        \cup {MalformedBody(kind) : kind \in MalformedKinds}

ApplyCreateBatches ==
    /\ fnPc = "input"
    /\ fnOp = "createBatches"
    /\ fnOut' = createBatches(fnTexts, fnSize)
    /\ fnRaised' = FALSE
    /\ fnPc' = "done"
    /\ UNCHANGED <<svcVars, btVars, envVars, fnOp, fnTexts, fnSize, fnData, fnArgs, appVars>>

ApplyParseBatchResponse ==
    /\ fnPc = "input"
    /\ fnOp = "parseBatchResponse"
    /\ fnOut' = parseBatchResponse(fnData, fnTexts)
    /\ fnRaised' = ParseOutcome(fnData, fnTexts).raised
    /\ fnPc' = "done"
    /\ UNCHANGED <<svcVars, btVars, envVars, fnOp, fnTexts, fnSize, fnData, fnArgs, appVars>>

NextFn ==
    \/ ApplyCreateBatches
    \/ ApplyParseBatchResponse

SpecFn == InitFn /\ [][NextFn]_vars

\* ------------------------------------------------------ markup and fields
\* A markup string is a sequence of tokens: a tag as it is written, or a run
\* of character data.  The text symbols hold no markup character.
Tag(src) == [kind |-> "tag", text |-> <<src>>]
Text(t) == [kind |-> "text", text |-> t]

\* the tags a markup is written with; the parser knows "<B>" as "<b>"
TagSources == {"<b>", "<B>"}

LowerCase(src) == IF src = "<B>" THEN "<b>" ELSE src

\* character data next to character data is one run
RECURSIVE MergeText(_)
MergeText(tokens) ==
    IF Len(tokens) = 0 THEN <<>>
    ELSE IF Head(tokens).kind = "text" /\ Head(tokens).text = <<>>
    THEN MergeText(Tail(tokens))
    ELSE IF Len(tokens) >= 2 /\ tokens[1].kind = "text" /\ tokens[2].kind = "text"
    THEN MergeText(<<Text(tokens[1].text \o tokens[2].text)>> \o Tail(Tail(tokens)))
    ELSE <<Head(tokens)>> \o MergeText(Tail(tokens))

\* div.innerHTML = html: the nodes of the parsed fragment, in document order
ParseHTML(html) ==
    LET merged == MergeText(html)
    IN  [k \in 1..Len(merged) |->
            IF merged[k].kind = "tag"
            THEN Tag(LowerCase(merged[k].text[1]))
            ELSE merged[k]]

\* div.innerHTML: the nodes written out again
SerializeHTML(nodes) == MergeText(nodes)

\* div.textContent
RECURSIVE textContent(_)
textContent(nodes) ==
    IF Len(nodes) = 0 THEN <<>>
    ELSE (IF Head(nodes).kind = "text" THEN Head(nodes).text ELSE <<>>)
            \o textContent(Tail(nodes))

\* stripHTML(html)
stripHTML(html) == textContent(ParseHTML(html))

\* restoreHTML: the text nodes the walker keeps, if (node.nodeValue.trim())
KeptTextNodes(nodes) ==
    {k \in 1..Len(nodes) : nodes[k].kind = "text" /\ Trim(nodes[k].text) # <<>>}

\* restoreHTML: if (textNodes.length === 1)
ReplaceWhenAny(count) == count >= 1

ReplaceWhen(count) == count = 1

\* restoreHTML(originalHTML, translatedText)
restoreHTML(originalHTML, translatedText) ==
    LET nodes == ParseHTML(originalHTML)
        textNodes == KeptTextNodes(nodes)
        first == CHOOSE k \in textNodes : \A j \in textNodes : k <= j
    IN  IF ReplaceWhen(Cardinality(textNodes))
        THEN SerializeHTML([nodes EXCEPT ![first] = Text(translatedText)])
        ELSE SerializeHTML(nodes)

\* a value of a record's property: undefined, or a string
Undefined == [defined |-> FALSE, text |-> <<>>]
Str(t) == [defined |-> TRUE, text |-> t]

\* undefined and '' are falsy
Truthy(v) == v.defined /\ v.text # <<>>

\* selectedFields.f as a condition: the flag may be true, false or absent
FlagNames == {"title", "description", "tags", "content"}
FlagValues == {"true", "false", "absent"}

FieldWantedUnlessFalse(selectedFields, f) == selectedFields[f] # "false"

FieldWanted(selectedFields, f) == selectedFields[f] = "true"

\* the request pushed for a plain field and for a markup field
PlainRequest(f, item, v) ==
    [field |-> f, originalText |-> v.text, itemId |-> item.id,
     hasHTML |-> FALSE, originalHTML |-> <<>>]

HtmlRequest(f, item) ==
    [field |-> f, originalText |-> stripHTML(item.body_html.text), itemId |-> item.id,
     hasHTML |-> TRUE, originalHTML |-> item.body_html.text]

\* if (selectedFields.f && item.f) { push }
PlainField(selectedFields, f, item, v) ==
    IF FieldWanted(selectedFields, f) /\ Truthy(v)
    THEN <<PlainRequest(f, item, v)>>
    ELSE <<>>

\* if (selectedFields.f && item.body_html) { if (textContent.trim()) { push } }
HtmlField(selectedFields, f, item) ==
    IF FieldWanted(selectedFields, f) /\ Truthy(item.body_html)
          /\ Trim(stripHTML(item.body_html.text)) # <<>>
    THEN <<HtmlRequest(f, item)>>
    ELSE <<>>

\* validateFieldsForTranslation(item, selectedFields, itemType)
validateFieldsForTranslation(item, selectedFields, itemType) ==
    CASE itemType = "product" ->
            PlainField(selectedFields, "title", item, item.title)
            \o HtmlField(selectedFields, "description", item)
            \o PlainField(selectedFields, "tags", item, item.tags)
      [] itemType = "collection" ->
            PlainField(selectedFields, "title", item, item.title)
            \o HtmlField(selectedFields, "description", item)
      [] itemType = "page" ->
            PlainField(selectedFields, "title", item, item.title)
            \o HtmlField(selectedFields, "content", item)
      [] OTHER -> <<>>

\* ----------------------------- markup and field functions applied on their own
TextRuns == {<<Space>>, <<"a">>}

Tokens == {Tag(src) : src \in TagSources} \cup {Text(t) : t \in TextRuns}

\* the markup strings of up to n tokens
Markups(n) == {m \in UNION {[1..k -> Tokens] : k \in 0..n} : MergeText(m) = m}

PropertyValues == {Undefined, Str(<<>>), Str(<<Space>>), Str(<<"a">>)}

BodyValues == {Undefined} \cup {Str(m) : m \in Markups(MaxBodyLen)}

ItemTypes == Kinds \cup {"widget"}

InitExtract ==
    /\ InitService
    /\ InitRun
    /\ InitApp
    /\ handlerThrows = FALSE
    /\ fnPc = "input"
    /\ fnTexts = <<>>
    /\ fnSize = 0
    /\ fnData = NoBody
    /\ fnOut = <<>>
    /\ fnRaised = FALSE
    /\ \/ /\ fnOp = "validateFieldsForTranslation"
          /\ fnArgs \in [item : [id : {1}, title : PropertyValues, tags : PropertyValues,
                                 body_html : BodyValues],
                         selectedFields : [FlagNames -> FlagValues],
                         itemType : ItemTypes]
       \/ /\ fnOp = "restoreHTML"
          /\ fnArgs \in [originalHTML : Markups(MaxMarkupLen),
                         translatedText : {<<"T">>, <<"T", Space, "T">>}]

ApplyValidateFields ==
    /\ fnPc = "input"
    /\ fnOp = "validateFieldsForTranslation"
    /\ fnOut' = validateFieldsForTranslation(fnArgs.item, fnArgs.selectedFields,
                                             fnArgs.itemType)
    /\ fnPc' = "done"
    /\ UNCHANGED <<svcVars, btVars, envVars, fnOp, fnTexts, fnSize, fnData, fnRaised,
                   fnArgs, appVars>>

ApplyRestoreHTML ==
    /\ fnPc = "input"
    /\ fnOp = "restoreHTML"
    /\ fnOut' = restoreHTML(fnArgs.originalHTML, fnArgs.translatedText)
    /\ fnPc' = "done"
    /\ UNCHANGED <<svcVars, btVars, envVars, fnOp, fnTexts, fnSize, fnData, fnRaised,
                   fnArgs, appVars>>

NextExtract ==
    \/ ApplyValidateFields
    \/ ApplyRestoreHTML

SpecExtract == InitExtract /\ [][NextExtract]_vars

\* ------------------------------------------------------------ ShopifyAPI
\* the X-Shopify-Shop-Api-Call-Limit header of a response, "used/total"
Headers == {NoHeader,
            [present |-> TRUE, used |-> 38, total |-> 40],
            [present |-> TRUE, used |-> 1, total |-> 40]}

\* updateRateLimit(headers)
updateRateLimitResets(remaining, header) ==
    IF header.present THEN header.total - header.used ELSE InitialRateLimit

updateRateLimit(remaining, header) ==
    IF header.present THEN header.total - header.used ELSE remaining

\* what the store does with a fetch: a 2xx answer, another answer, no answer
StoreOutcomes == {"ok", "http_error", "network_error"}

RemainingAfter(outcome, header) ==
    IF outcome = "network_error"
    THEN rateLimitRemaining
    ELSE updateRateLimit(rateLimitRemaining, header)

\* waitForRateLimit: the call is suspended only if rateLimitRemaining <= 2 (and
\* less than the pacing window has passed, which this model leaves open)
PaceAllowed(pace, remaining) == pace = "go" \/ (pace = "wait" /\ remaining <= 2)

\* the content-store calls after a step: one fetch answered, some calls begun
StoreStep(answered, calls) ==
    /\ storeInFlight' =
          [o \in Owners |->
              storeInFlight[o] - (IF o = answered THEN 1 ELSE 0)
                               + (IF <<o, "go">> \in calls THEN 1 ELSE 0)]
    /\ storeWaiting' =
          [o \in Owners |-> storeWaiting[o] + (IF <<o, "wait">> \in calls THEN 1 ELSE 0)]

\* the timer of waitForRateLimit fires: lastRequestTime is set, fetch is called
WaitElapsed(o) ==
    /\ storeWaiting[o] > 0
    /\ storeWaiting' = [storeWaiting EXCEPT ![o] = @ - 1]
    /\ storeInFlight' = [storeInFlight EXCEPT ![o] = @ + 1]
    /\ UNCHANGED <<svcVars, btVars, envVars, fnVars, apiVars, loading, clickVars, hPc, jobVars,
                   isConnected, rateLimitRemaining, awaited, listed>>

\* ----------------------------------------------------------- the handlers
Items == 1..MaxItems

\* the checked boxes of a list, in the order of the list
SortedSeq(S) ==
    CHOOSE f \in [1..Cardinality(S) -> S] :
        \A a, b \in 1..Cardinality(S) : a < b => f[a] < f[b]

Selections(S) == {SortedSeq(T) : T \in SUBSET S}

\* the handler logs an error and returns before its try block
Rejected(button, hasSelectedFields, noneSelected, error) ==
    /\ clicks' = [clicks EXCEPT ![button] = @ + 1]
    /\ lastClick' = Click(button, hasSelectedFields, noneSelected, error)
    /\ UNCHANGED <<svcVars, btVars, envVars, fnVars, apiVars, loading, hPc, jobVars, storeVars,
                   awaited, listed>>

\* the handler goes on to its try block
Accepted(button, hasSelectedFields, noneSelected) ==
    /\ clicks' = [clicks EXCEPT ![button] = @ + 1]
    /\ lastClick' = Click(button, hasSelectedFields, noneSelected, "none")

\* setLoadingState(true) disables every button: no click reaches a handler
CanStartHandlerAlways == TRUE

CanStartHandler == ~loading

\* finally { setLoadingState(false) }
FinishHandlerStillLoading ==
    /\ hPc' = "idle"
    /\ loading' = loading

FinishHandler ==
    /\ hPc' = "idle"
    /\ loading' = FALSE

ListCalls(pattern) ==
    CASE pattern = "all_go"   -> {<<op, "go">> : op \in ListOps}
      [] pattern = "first_go" -> {<<"getProducts", "go">>, <<"getCollections", "wait">>,
                                  <<"getPages", "wait">>}
      [] pattern = "all_wait" -> {<<op, "wait">> : op \in ListOps}

\* the three list calls begin in one turn: with rateLimitRemaining <= 2 either
\* all are suspended, or the first goes and sets lastRequestTime for the others
PatternAllowed(pattern, remaining) ==
    IF remaining <= 2 THEN pattern \in {"first_go", "all_wait"} ELSE pattern = "all_go"

NoListCall == [op \in ListOps |-> [st |-> "idle", ids |-> {}]]

\* connectToStore, up to its first await
ConnectClick(filled, demo, pace) ==
    /\ CanStartHandler
    /\ clicks["connect"] < MaxClicks
    /\ \A op \in ListOps : storeWaiting[op] = 0 /\ storeInFlight[op] = 0
    /\ IF ~filled
       THEN \* 'Please fill in all required fields'
            /\ pace = "go"
            /\ Rejected("connect", FALSE, FALSE, "fill")
       ELSE /\ Accepted("connect", TRUE, FALSE)
            /\ IF demo
               THEN \* loadDemoData, then finally
                    /\ pace = "go"
                    /\ listed' = [k \in Lists |-> IF k \in Kinds THEN Items ELSE listed[k]]
                    /\ apiKey' = "demo_key"
                    /\ UNCHANGED <<totalTokensUsed, requestCount, btVars, envVars, fnVars, apiVars,
                                   loading, hPc, jobVars, storeVars, awaited>>
               ELSE \* shopifyAPI.connect: makeRequest('/admin/api/2023-10/shop.json')
                    /\ PaceAllowed(pace, rateLimitRemaining)
                    /\ loading' = TRUE
                    /\ hPc' = "probe"
                    /\ StoreStep("nobody", {<<"handler", pace>>})
                    /\ UNCHANGED <<svcVars, btVars, envVars, fnVars, apiVars, jobVars, isConnected,
                                   rateLimitRemaining, awaited, listed>>

\* the shop.json fetch is answered: connect, setApiKey, loadInitialData
ProbeAnswered(outcome, header, shop, pattern) ==
    /\ hPc = "probe"
    /\ storeInFlight["handler"] > 0
    /\ outcome = "network_error" => header = NoHeader
    /\ rateLimitRemaining' = RemainingAfter(outcome, header)
    /\ IF outcome # "ok"
       THEN \* connect rethrows, connectToStore logs 'Connection failed'
            /\ shop = FALSE /\ pattern = "all_go"
            /\ FinishHandler
            /\ StoreStep("handler", {})
            /\ UNCHANGED <<svcVars, isConnected, awaited>>
       ELSE /\ isConnected' = (isConnected \/ shop)
            /\ apiKey' = "sk-key"
            /\ UNCHANGED <<totalTokensUsed, requestCount>>
            /\ IF isConnected \/ shop
               THEN \* Promise.all([getProducts(), getCollections(), getPages()])
                    /\ PatternAllowed(pattern, RemainingAfter(outcome, header))
                    /\ hPc' = "load"
                    /\ loading' = loading
                    /\ awaited' = [op \in ListOps |-> [st |-> "pending", ids |-> {}]]
                    /\ StoreStep("handler", ListCalls(pattern))
               ELSE \* every list call raises 'Not connected to store'
                    /\ pattern = "all_go"
                    /\ FinishHandler
                    /\ StoreStep("handler", {})
                    /\ UNCHANGED awaited
    /\ UNCHANGED <<btVars, envVars, fnVars, apiVars, clickVars, jobVars, listed>>

ListKind(op) ==
    CASE op = "getProducts" -> "product"
      [] op = "getCollections" -> "collection"
      [] op = "getPages" -> "page"

\* the fetch of a list call is answered
ListAnswered(op, outcome, header, ids) ==
    /\ storeInFlight[op] > 0
    /\ outcome = "network_error" => header = NoHeader
    /\ outcome # "ok" => ids = {}
    /\ rateLimitRemaining' = RemainingAfter(outcome, header)
    /\ StoreStep(op, {})
    /\ IF hPc = "load" /\ awaited[op].st = "pending"
       THEN IF outcome # "ok"
            THEN \* Promise.all rejects: loadInitialData logs, connectToStore ends
                 /\ awaited' = NoListCall
                 /\ FinishHandler
                 /\ UNCHANGED listed
            ELSE LET settled == [awaited EXCEPT ![op] = [st |-> "resolved", ids |-> ids]]
                 IN  IF \A o \in ListOps : settled[o].st = "resolved"
                     THEN \* products = productsData; ...; populate the lists
                          /\ listed' = [k \in Lists |->
                                          IF k \in Kinds
                                          THEN LET o == CHOOSE x \in ListOps : ListKind(x) = k
                                               IN  settled[o].ids
                                          ELSE listed[k]]
                          /\ awaited' = NoListCall
                          /\ FinishHandler
                     ELSE /\ awaited' = settled
                          /\ UNCHANGED <<listed, hPc, loading>>
       ELSE \* nobody waits for this answer any more
            UNCHANGED <<awaited, listed, hPc, loading>>
    /\ UNCHANGED <<svcVars, btVars, envVars, fnVars, apiVars, clickVars, jobVars, isConnected>>

\* validateTranslationRequest(selectedFields, selectedIds, itemType): the error
\* it logs, and what it returns
ValidationError(hasSelectedFields, selectedIds) ==
    IF ~hasSelectedFields THEN "fields"
    ELSE IF Len(selectedIds) = 0 THEN "items"
    ELSE "none"

validateTranslationRequestFieldsOnly(hasSelectedFields, selectedIds) == hasSelectedFields

validateTranslationRequest(hasSelectedFields, selectedIds) ==
    ValidationError(hasSelectedFields, selectedIds) = "none"

\* the job's catch sits outside its for loop: whatever raises ends the job
JobFails(idx, answered, log) ==
    /\ jobStatus' = "failed"
    /\ ji' = idx
    /\ jobLog' = Append(log, <<"error", idx + 1>>)
    /\ FinishHandler
    /\ StoreStep(answered, {})

\* the loop test of a job and, if it passes, get<Kind>ForTranslation(ids[idx])
GoToItem(ids, idx, answered, pace, log, remaining) ==
    IF idx < Len(ids)
    THEN IF ~isConnected
         THEN \* makeRequest raises 'Not connected to store'
              /\ pace = "go"
              /\ JobFails(idx, answered, log)
         ELSE /\ PaceAllowed(pace, remaining)
              /\ jobStatus' = "running"
              /\ ji' = idx
              /\ jobLog' = Append(log, <<"get", ids[idx + 1]>>)
              /\ hPc' = "get"
              /\ loading' = TRUE
              /\ StoreStep(answered, {<<"handler", pace>>})
    ELSE \* '... translation completed successfully', then finally
         /\ pace = "go"
         /\ jobStatus' = "completed"
         /\ ji' = idx
         /\ jobLog' = log
         /\ FinishHandler
         /\ StoreStep(answered, {})

\* translateProducts / translateCollections / translatePages, to the first await
TranslateClick(kind, hasSelectedFields, selectedIds, pace) ==
    /\ CanStartHandler
    /\ clicks["translate"] < MaxClicks
    /\ selectedIds \in Selections(listed[kind])
    /\ IF ~validateTranslationRequest(hasSelectedFields, selectedIds)
       THEN /\ pace = "go"
            /\ Rejected("translate", hasSelectedFields, Len(selectedIds) = 0,
                        ValidationError(hasSelectedFields, selectedIds))
       ELSE /\ Accepted("translate", hasSelectedFields, Len(selectedIds) = 0)
            /\ hKind' = kind
            /\ jobIds' = selectedIds
            /\ GoToItem(selectedIds, 0, "nobody", pace, <<>>, rateLimitRemaining)
            /\ UNCHANGED <<svcVars, btVars, envVars, fnVars, apiVars, isConnected,
                           rateLimitRemaining, awaited, listed>>

\* the record of item ji arrives (or not): validateFieldsForTranslation, then
\* batchTranslate up to its first await
JobGetAnswered(outcome, header, nTexts, pace) ==
    /\ hPc = "get"
    /\ storeInFlight["handler"] > 0
    /\ outcome = "network_error" => header = NoHeader
    /\ rateLimitRemaining' = RemainingAfter(outcome, header)
    /\ IF outcome # "ok"
       THEN /\ nTexts = 0 /\ pace = "go"
            /\ JobFails(ji, "handler", jobLog)
            /\ UNCHANGED <<btVars, envVars>>
       ELSE IF nTexts = 0
            THEN \* 'No translatable content found': continue
                 /\ GoToItem(jobIds, ji + 1, "handler", pace,
                             Append(jobLog, <<"empty", jobIds[ji + 1]>>),
                             RemainingAfter(outcome, header))
                 /\ UNCHANGED <<btVars, envVars>>
            ELSE /\ pace = "go"
                 /\ BeginBatchTranslate(MakeTexts(nTexts))
                 /\ UNCHANGED handlerThrows
                 /\ IF EntryCheck(apiKey, MakeTexts(nTexts)) = "throw"
                    THEN JobFails(ji, "handler", jobLog)
                    ELSE /\ hPc' = "translate"
                         /\ jobLog' = Append(jobLog, <<"translate", jobIds[ji + 1]>>)
                         /\ StoreStep("handler", {})
                         /\ UNCHANGED <<loading, ji, jobStatus>>
    /\ UNCHANGED <<svcVars, fnVars, apiVars, clickVars, hKind, jobIds, isConnected, awaited, listed>>

\* const translatedTexts = await translationService.batchTranslate(...)
TranslationNotAwaited == btPc \in {"await", "delay", "returned"}

TranslationAwaited == btPc = "returned"

\* batchTranslate has returned and its locals are gone: apply<Kind>Translations,
\* then update<Kind>
JobTranslated(pace) ==
    /\ hPc = "translate"
    /\ TranslationAwaited
    /\ PaceAllowed(pace, rateLimitRemaining)
    /\ hPc' = "put"
    /\ jobLog' = Append(jobLog, <<"put", jobIds[ji + 1]>>)
    /\ StoreStep("nobody", {<<"handler", pace>>})
    /\ btPc' = "idle"
    /\ texts' = <<>> /\ batches' = <<>> /\ i' = 0 /\ results' = <<>>
    /\ sent' = <<>> /\ outcomes' = <<>> /\ progressLog' = <<>>
    /\ UNCHANGED <<svcVars, openaiInFlight, delays, handlerThrows, runs, fnVars, apiVars,
                   loading, clickVars, hKind, jobIds, ji, jobStatus, isConnected,
                   rateLimitRemaining, awaited, listed>>

\* the write of item ji is answered
JobPutAnswered(outcome, header, pace) ==
    /\ hPc = "put"
    /\ storeInFlight["handler"] > 0
    /\ outcome = "network_error" => header = NoHeader
    /\ rateLimitRemaining' = RemainingAfter(outcome, header)
    /\ IF outcome # "ok"
       THEN /\ pace = "go"
            /\ JobFails(ji, "handler", jobLog)
       ELSE GoToItem(jobIds, ji + 1, "handler", pace,
                     Append(jobLog, <<"written", jobIds[ji + 1]>>),
                     RemainingAfter(outcome, header))
    /\ UNCHANGED <<svcVars, btVars, envVars, fnVars, apiVars, clickVars, hKind, jobIds,
                   isConnected, awaited, listed>>

\* two of the widgets simulateWidgetDetection reports, and how many
\* extractedTexts each has
Widgets == {"announcement-bar-1", "chat-widget-1"}

extractedTexts(w) == IF w = "announcement-bar-1" THEN 3 ELSE 12

RECURSIVE TextCount(_)
TextCount(ws) ==
    IF ws = {} THEN 0
    ELSE LET w == CHOOSE x \in ws : TRUE
         IN  extractedTexts(w) + TextCount(ws \ {w})

\* widgetTranslationService exists once connectToStore or loadDemoData has
\* created it, in the step that calls setApiKey
WidgetServiceReady == apiKey # NoKey

\* detectWidgets, up to the timer of simulateWidgetDetection
DetectWidgetsClick ==
    /\ CanStartHandler
    /\ clicks["detect"] < MaxClicks
    /\ IF ~WidgetServiceReady
       THEN \* 'Please connect to a store first'
            Rejected("detect", TRUE, FALSE, "service")
       ELSE /\ Accepted("detect", TRUE, FALSE)
            /\ loading' = TRUE
            /\ hPc' = "detect"
            /\ UNCHANGED <<svcVars, btVars, envVars, fnVars, apiVars, jobVars, storeVars,
                           awaited, listed>>

\* the detection timer fires: populateWidgetList, then finally
DetectDone ==
    /\ hPc = "detect"
    /\ listed' = [listed EXCEPT !["widget"] = Widgets]
    /\ FinishHandler
    /\ UNCHANGED <<svcVars, btVars, envVars, fnVars, apiVars, clickVars, jobVars, storeVars, awaited>>

\* translateWidgets, lines 605-616: 'Please detect widgets first', then 'Please
\* select at least one widget to translate'
WidgetsError(selectedWidgets) ==
    IF ~WidgetServiceReady THEN "service"
    ELSE IF selectedWidgets = {} THEN "items"
    ELSE "none"

\* translateWidgets: extractWidgetTexts, then batchTranslate to its first await
TranslateWidgetsClick(selectedWidgets) ==
    /\ CanStartHandler
    /\ clicks["widgets"] < MaxClicks
    /\ selectedWidgets \subseteq listed["widget"]
    /\ IF WidgetsError(selectedWidgets) # "none"
       THEN Rejected("widgets", TRUE, selectedWidgets = {}, WidgetsError(selectedWidgets))
       ELSE /\ Accepted("widgets", TRUE, selectedWidgets = {})
            /\ loading' = TRUE
            /\ hPc' = "widgets"
            /\ BeginBatchTranslate(MakeTexts(TextCount(selectedWidgets)))
            /\ UNCHANGED <<svcVars, handlerThrows, fnVars, apiVars, jobVars, storeVars,
                           awaited, listed>>

\* batchTranslate has returned: processTranslationResults, show, then finally
WidgetsTranslated ==
    /\ hPc = "widgets"
    /\ btPc = "returned"
    /\ FinishHandler
    /\ btPc' = "idle"
    /\ texts' = <<>> /\ batches' = <<>> /\ i' = 0 /\ results' = <<>>
    /\ sent' = <<>> /\ outcomes' = <<>> /\ progressLog' = <<>> /\ delays' = <<>>
    /\ UNCHANGED <<svcVars, openaiInFlight, handlerThrows, runs, fnVars, apiVars, clickVars,
                   jobVars, storeVars, awaited, listed>>

\* for the handlers an answer of the endpoint is a usable one or none: what an
\* answer may hold is Next's subject
AppFailureKinds == {"network_error"}

AppBodies == {data \in PossibleBodies : data.hasUsage /\ data.shape = "full"}

NextApp ==
    \/ \E filled, demo \in BOOLEAN, pace \in {"go", "wait"} : ConnectClick(filled, demo, pace)
    \/ \E outcome \in StoreOutcomes, header \in Headers, shop \in BOOLEAN,
          pattern \in {"all_go", "first_go", "all_wait"} :
            ProbeAnswered(outcome, header, shop, pattern)
    \/ \E op \in ListOps, outcome \in StoreOutcomes, header \in Headers,
          ids \in {{}, Items} : ListAnswered(op, outcome, header, ids)
    \/ \E o \in Owners : WaitElapsed(o)
    \/ \E kind \in Kinds, hasSelectedFields \in BOOLEAN, pace \in {"go", "wait"} :
          \E selectedIds \in Selections(listed[kind]) :
              TranslateClick(kind, hasSelectedFields, selectedIds, pace)
    \/ \E outcome \in StoreOutcomes, header \in Headers, nTexts \in 0..MaxItemTexts,
          pace \in {"go", "wait"} : JobGetAnswered(outcome, header, nTexts, pace)
    \/ \E pace \in {"go", "wait"} : JobTranslated(pace)
    \/ \E outcome \in StoreOutcomes, header \in Headers, pace \in {"go", "wait"} :
          JobPutAnswered(outcome, header, pace)
    \/ \E kind \in AppFailureKinds : ReceiveFailure(kind)
    \/ \E data \in AppBodies : ReceiveOk(data)
    \/ DelayElapsed
    \/ DetectWidgetsClick
    \/ DetectDone
    \/ \E selectedWidgets \in SUBSET Widgets : TranslateWidgetsClick(selectedWidgets)
    \/ WidgetsTranslated

SpecApp == Init /\ [][NextApp]_vars

\* --------------------------------------------------- ShopifyAPI over time
\* waitForRateLimit, line 258: if (this.rateLimitRemaining <= 2 &&
\* timeSinceLastRequest < 1000)
ShouldWaitBelowFloor(remaining, elapsed) ==
    remaining < RateLimitFloor /\ elapsed < PacingWindowMs

ShouldWait(remaining, elapsed) ==
    remaining <= RateLimitFloor /\ elapsed < PacingWindowMs

\* line 259: const waitTime = 1000 - timeSinceLastRequest
WaitTime(elapsed) == PacingWindowMs - elapsed

\* lastRequestTime, the calls in progress and the record, as one value
StoreState(last, calls, seen) == [last |-> last, calls |-> calls, seen |-> seen]

\* a call that has stamped lastRequestTime and called fetch, lines 49-65
Fetching(endpoint, token) ==
    [NoCall EXCEPT !.st = "fetching", !.endpoint = endpoint, !.token = token]

\* makeRequest(endpoint) by caller o, lines 43-47, with waitForRateLimit up to
\* its timer: the call is refused, suspended, or stamps lastRequestTime and
\* goes to fetch with the token the object holds
EnterRequest(st, o, endpoint, token) ==
    LET elapsed == now - st.last
        seen == [st.seen EXCEPT !.begun = @ + 1]
        others == [p \in Owners |->
                     IF p # o /\ st.calls[p].st = "waiting"
                     THEN [st.calls[p] EXCEPT !.alone = FALSE]
                     ELSE st.calls[p]]
        waiting == [st |-> "waiting", endpoint |-> endpoint, enteredAt |-> now,
                    lastSeen |-> st.last, remainingSeen |-> rateLimitRemaining,
                    wakeAt |-> now + WaitTime(elapsed),
                    alone |-> \A p \in Owners \ {o} : st.calls[p].st = "idle",
                    token |-> NoKey]
    IN  IF ~isConnected /\ endpoint # "shop"
        THEN \* throw new Error('Not connected to store')
             StoreState(st.last, st.calls, seen)
        ELSE IF ShouldWait(rateLimitRemaining, elapsed)
        THEN StoreState(st.last, [others EXCEPT ![o] = waiting], seen)
        ELSE StoreState(now, [others EXCEPT ![o] = Fetching(endpoint, token)],
                        [seen EXCEPT !.lifted = rateLimitRemaining > RateLimitFloor])

\* the state of the ShopifyAPI object becomes st
ApplyStore(st) ==
    /\ lastRequestTime' = st.last
    /\ storeCalls' = st.calls
    /\ storeSeen' = st.seen
    /\ storeWaiting' = [o \in Owners |-> IF st.calls[o].st = "waiting" THEN 1 ELSE 0]
    /\ storeInFlight' = [o \in Owners |-> IF st.calls[o].st = "fetching" THEN 1 ELSE 0]

CurrentStore == StoreState(lastRequestTime, storeCalls, storeSeen)

\* a handler awaits each of its calls, and runs while no list call is pending
HandlerMayCall == \A o \in Owners : storeCalls[o].st = "idle"

\* connect(storeUrl, apiKey), lines 19-25, up to the first await of its probe
connect(token) ==
    /\ HandlerMayCall
    /\ storeSeen.begun < MaxStoreCalls
    /\ accessToken' = token
    /\ ApplyStore(EnterRequest(CurrentStore, "handler", "shop", token))
    /\ UNCHANGED <<svcVars, btVars, envVars, fnVars, loading, clickVars, hPc, jobVars,
                   isConnected, rateLimitRemaining, awaited, listed, now>>

\* one call of a handler that awaits each of its calls: get<Kind>ForTranslation
\* or update<Kind>
makeRequest ==
    /\ HandlerMayCall
    /\ storeSeen.begun < MaxStoreCalls
    /\ ApplyStore(EnterRequest(CurrentStore, "handler", "record", accessToken))
    /\ UNCHANGED <<svcVars, btVars, envVars, fnVars, loading, clickVars, hPc, jobVars,
                   isConnected, rateLimitRemaining, awaited, listed, now, accessToken>>

\* loadInitialData, line 185: Promise.all([getProducts(), getCollections(),
\* getPages()]): the three calls begin one after the other in the same turn
loadInitialData ==
    /\ HandlerMayCall
    /\ storeSeen.begun + 3 <= MaxStoreCalls
    /\ ApplyStore(EnterRequest(EnterRequest(EnterRequest(CurrentStore,
                        "getProducts", "list", accessToken),
                        "getCollections", "list", accessToken),
                        "getPages", "list", accessToken))
    /\ UNCHANGED <<svcVars, btVars, envVars, fnVars, loading, clickVars, hPc, jobVars,
                   isConnected, rateLimitRemaining, awaited, listed, now, accessToken>>

\* the timer of waitForRateLimit fires, lines 260-263: lastRequestTime is
\* stamped and fetch is called
WaitForRateLimitResumes(o) ==
    /\ storeCalls[o].st = "waiting"
    /\ storeCalls[o].wakeAt = now
    /\ ApplyStore(StoreState(now,
                             [storeCalls EXCEPT
                                ![o] = Fetching(storeCalls[o].endpoint, accessToken)],
                             [storeSeen EXCEPT
                                !.lifted = rateLimitRemaining > RateLimitFloor]))
    /\ UNCHANGED <<svcVars, btVars, envVars, fnVars, loading, clickVars, hPc, jobVars,
                   isConnected, rateLimitRemaining, awaited, listed, now, accessToken>>

\* connect, lines 26-34: how an answered probe ends
ConnectResult(outcome, shop) == IF outcome = "ok" /\ shop THEN "ok" ELSE "failed"

\* connect leaves isConnected alone unless the probe's answer holds a shop
ConnectedAfter(connected, result) == connected \/ result = "ok"

\* makeRequest, lines 64-79: fetch rejects, or updateRateLimit returns and the
\* call resolves with the body of a 2xx answer and rejects on any other
Settled(outcome) == IF outcome = "ok" THEN "resolved" ELSE "rejected"

\* the fetch of caller o is answered (or fails): lines 64-79, and for the
\* probe the rest of connect
FetchAnswered(o, outcome, header, shop) ==
    /\ storeCalls[o].st = "fetching"
    /\ outcome = "network_error" => header = NoHeader
    /\ (storeCalls[o].endpoint # "shop" \/ outcome # "ok") => ~shop
    /\ rateLimitRemaining' = RemainingAfter(outcome, header)
    /\ LET probe == storeCalls[o].endpoint = "shop"
           result == ConnectResult(outcome, shop)
       IN  /\ isConnected' = IF probe THEN ConnectedAfter(isConnected, result)
                             ELSE isConnected
           /\ ApplyStore(StoreState(lastRequestTime, [storeCalls EXCEPT ![o] = NoCall],
                    [storeSeen EXCEPT
                        !.connect = IF probe THEN result ELSE @,
                        !.connectToken = IF probe THEN storeCalls[o].token ELSE @,
                        !.lifted = @ \/ RemainingAfter(outcome, header) > RateLimitFloor,
                        !.answered = o,
                        !.outcome = outcome,
                        !.header = header,
                        !.settled = Settled(outcome)]))
    /\ UNCHANGED <<svcVars, btVars, envVars, fnVars, loading, clickVars, hPc, jobVars,
                   awaited, listed, now, accessToken>>

\* the steps of the clock
ClockSteps == {PacingWindowMs \div 2, PacingWindowMs}

\* time passes, up to the next timer
TimePasses(ms) ==
    /\ now + ms <= PacingWindowMs * (1 + MaxWindows)
    /\ \A o \in Owners : storeCalls[o].st = "waiting" => now + ms <= storeCalls[o].wakeAt
    /\ now' = now + ms
    /\ UNCHANGED <<svcVars, btVars, envVars, fnVars, loading, clickVars, hPc, jobVars,
                   storeVars, awaited, listed, lastRequestTime, accessToken, storeCalls,
                   storeSeen>>

NextStore ==
    \/ \E token \in AccessTokens : connect(token)
    \/ makeRequest
    \/ loadInitialData
    \/ \E o \in Owners : WaitForRateLimitResumes(o)
    \/ \E o \in Owners, outcome \in StoreOutcomes, header \in Headers, shop \in BOOLEAN :
          FetchAnswered(o, outcome, header, shop)
    \/ \E ms \in ClockSteps : TimePasses(ms)

SpecStore == Init /\ [][NextStore]_vars

\* ================================================================ claims

\* the requests of batch number b (1-based) sit at these positions of texts
FirstOf(b) == (b - 1) * batchSize + 1
LastOf(b) == Min(b * batchSize, Len(texts))

IsFailure(o) == o.kind # "ok"
IsFaithful(o) == o.kind = "ok" /\ o.body.shape \in {"full", "padded", "extra"}

\* C1: with a credential set, a batchTranslate call on a non-empty list returns
\* one result per request, in the order of the input: result k carries the
\* field, item id and originalText of request k, whatever each batch's fetch did.
C1_OneResultPerRequest ==
    btPc = "returned" =>
        /\ Len(results) = Len(texts)
        /\ \A k \in 1..Len(texts) :
              /\ results[k].field = texts[k].field
              /\ results[k].itemId = texts[k].itemId
              /\ results[k].originalText = texts[k].originalText

C1_Witness ==
    /\ btPc = "returned"
    /\ Len(batches) = 3
    /\ Len(outcomes) = 3
    /\ IsFailure(outcomes[2])
    /\ ~IsFailure(outcomes[1])
    /\ Len(results) = Len(texts)

\* C2: a failed fetch for one batch does not end the job: when batchTranslate
\* returns, every batch has been sent to the endpoint, once and in order, and
\* the requests of each batch the endpoint answered faithfully carry the
\* decoded translation, not their own text.
C2_FailureDoesNotAbort ==
    btPc = "returned" =>
        /\ Len(sent) = Len(batches)
        /\ Len(outcomes) = Len(batches)
        /\ \A b \in 1..Len(batches) :
              /\ sent[b].batch = b
              /\ sent[b].texts = batches[b]
              /\ IsFaithful(outcomes[b]) =>
                    \A k \in FirstOf(b)..LastOf(b) :
                        /\ k <= Len(results)
                        /\ results[k].translatedText = Translated(texts[k].originalText)

C2_Witness ==
    /\ btPc = "returned"
    /\ Len(batches) = 3
    /\ Len(outcomes) = 3
    /\ IsFaithful(outcomes[1])
    /\ IsFailure(outcomes[2])
    /\ IsFaithful(outcomes[3])
    /\ results[21].translatedText = Translated(texts[21].originalText)

\* C3: when the fetch of a batch fails (the network, a non-2xx answer, a body
\* that is no JSON or no object) or its payload holds no usable content, each
\* request of that batch gets its own originalText as translatedText; the
\* requests of the other batches do not: a batch answered faithfully keeps its
\* translations.
C3_FailedBatchEchoes ==
    btPc = "returned" =>
        \A b \in 1..Len(batches) :
            /\ b <= Len(outcomes)
            /\ (IsFailure(outcomes[b]) \/ ~outcomes[b].body.hasContent) =>
                    \A k \in FirstOf(b)..LastOf(b) :
                        /\ k <= Len(results)
                        /\ results[k].translatedText = texts[k].originalText
            /\ IsFaithful(outcomes[b]) =>
                    \A k \in FirstOf(b)..LastOf(b) :
                        /\ k <= Len(results)
                        /\ results[k].translatedText # texts[k].originalText

C3_Witness ==
    /\ btPc = "returned"
    /\ Len(batches) >= 2
    /\ Len(outcomes) = Len(batches)
    /\ \E b \in 1..Len(batches) : outcomes[b].kind = "http_error"
    /\ \E b \in 1..Len(batches) : outcomes[b].kind = "ok" /\ ~outcomes[b].body.hasContent
    /\ \E b \in 1..Len(batches) : IsFaithful(outcomes[b])

\* C4: called without a credential, batchTranslate raises whatever its input
\* (the empty list included), and that step sends nothing to the endpoint,
\* starts no delay, gives no progress signal and leaves totalTokensUsed and
\* requestCount as they were.
C4_NoCredentialFailsFast ==
    [][(runs' = runs + 1 /\ apiKey = NoKey) =>
            /\ btPc' = "threw"
            /\ sent' = <<>>
            /\ delays' = <<>>
            /\ progressLog' = <<>>
            /\ openaiInFlight' = openaiInFlight
            /\ totalTokensUsed' = totalTokensUsed
            /\ requestCount' = requestCount]_vars

C4_Witness ==
    /\ btPc = "threw"
    /\ runs = 2
    /\ texts = <<>>
    /\ apiKey = NoKey

\* C5: in a job over several records with the store connected, a failed fetch
\* or write of record i is skipped and every record after i is still fetched:
\* a job that has ended has fetched every record that was selected.
Fetched(id) == \E e \in 1..Len(jobLog) : jobLog[e] = <<"get", id>>

C5_SiblingsStillProcessed ==
    (hPc = "idle" /\ jobStatus = "failed" /\ isConnected) =>
        \A k \in 1..Len(jobIds) : Fetched(jobIds[k])

\* C6: calls to one API always serialize: never two content-store requests in
\* flight together and never two translation requests in flight together, the
\* initial data load included.
StoreRequestsInFlight ==
    storeInFlight["handler"] + storeInFlight["getProducts"]
        + storeInFlight["getCollections"] + storeInFlight["getPages"]

C6_SameApiSerializes ==
    /\ StoreRequestsInFlight <= 1
    /\ openaiInFlight <= 1

\* C6, as the code has it: never two translation requests in flight together,
\* and never two of the content-store requests a handler makes for itself (the
\* connect probe, a job's fetch and write of a record) begun together; the
\* list calls of the initial data load are outside this and run side by side.
C6_HandlerCallsSerialize ==
    /\ openaiInFlight <= 1
    /\ storeInFlight["handler"] + storeWaiting["handler"] <= 1
    /\ ~(openaiInFlight = 1 /\ storeInFlight["handler"] + storeWaiting["handler"] = 1)

C6_Witness ==
    /\ hPc = "load"
    /\ \A op \in ListOps : storeInFlight[op] = 1
    /\ storeInFlight["handler"] = 0

\* C7: a run of k batches starts exactly k-1 delays of 1000 ms, one after each
\* batch but the last, whatever the batch's outcome.
C7_DelayBetweenAllBatches ==
    btPc = "returned" =>
        /\ Len(delays) = (IF Len(batches) = 0 THEN 0 ELSE Len(batches) - 1)
        /\ \A d \in 1..Len(delays) :
              delays[d] = [after |-> d, ms |-> InterBatchDelayMs]

\* C8: createBatches(R, b) with b >= 1 cuts R into consecutive slices: the
\* batches concatenated give R back, every batch but the last holds b
\* requests, the last holds 1..b, and the empty list gives no batch.
RECURSIVE Flatten(_)
Flatten(ss) == IF ss = <<>> THEN <<>> ELSE Head(ss) \o Flatten(Tail(ss))

C8_BatchesPartition ==
    (fnPc = "done" /\ fnOp = "createBatches") =>
        /\ Flatten(fnOut) = fnTexts
        /\ \A b \in 1..(Len(fnOut) - 1) : Len(fnOut[b]) = fnSize
        /\ Len(fnOut) > 0 =>
              /\ Len(fnOut[Len(fnOut)]) >= 1
              /\ Len(fnOut[Len(fnOut)]) <= fnSize
        /\ (fnTexts = <<>>) => (fnOut = <<>>)

C8_Witness ==
    /\ fnPc = "done"
    /\ fnOp = "createBatches"
    /\ Len(fnOut) = 3
    /\ Len(fnOut[1]) = fnSize
    /\ Len(fnOut[3]) < fnSize

\* the pieces of a response content, as the spec counts them
PiecesOf(c) == Split(c)

\* C9: when the content splits into fewer pieces than the batch holds
\* requests, parseBatchResponse still returns one result per request, and each
\* request past the last piece has its own originalText as translatedText.
C9_MissingTailEchoes ==
    (fnPc = "done" /\ fnOp = "parseBatchResponse" /\ fnData.hasContent
        /\ Len(PiecesOf(fnData.content)) < Len(fnTexts)) =>
        /\ Len(fnOut) = Len(fnTexts)
        /\ \A k \in 1..Len(fnTexts) :
              /\ fnOut[k].originalText = fnTexts[k].originalText
              /\ fnOut[k].field = fnTexts[k].field
              /\ k > Len(PiecesOf(fnData.content)) =>
                    fnOut[k].translatedText = fnTexts[k].originalText

C9_Witness ==
    /\ fnPc = "done"
    /\ fnOp = "parseBatchResponse"
    /\ fnData.hasContent
    /\ Len(fnTexts) = 3
    /\ Len(PiecesOf(fnData.content)) = 2
    /\ fnOut[1].translatedText = <<"a">>
    /\ fnOut[3].translatedText = fnTexts[3].originalText

\* C10 as stated: with exactly len(batch) pieces, request i gets the i-th
\* piece, trimmed, as translatedText.
C10_PieceForPiece ==
    (fnPc = "done" /\ fnOp = "parseBatchResponse" /\ fnData.hasContent
        /\ Len(PiecesOf(fnData.content)) = Len(fnTexts)) =>
        \A k \in 1..Len(fnTexts) :
            fnOut[k].translatedText = Trim(PiecesOf(fnData.content)[k])

\* C10 amended: with exactly len(batch) pieces, request i gets the i-th piece,
\* trimmed, when that is not empty, and its own originalText when the i-th
\* piece is empty or all whitespace.
C10_PieceOrOriginal ==
    (fnPc = "done" /\ fnOp = "parseBatchResponse" /\ fnData.hasContent
        /\ Len(PiecesOf(fnData.content)) = Len(fnTexts)) =>
        \A k \in 1..Len(fnTexts) :
            fnOut[k].translatedText =
                IF Trim(PiecesOf(fnData.content)[k]) # <<>>
                THEN Trim(PiecesOf(fnData.content)[k])
                ELSE fnTexts[k].originalText

C10_Witness ==
    /\ fnPc = "done"
    /\ fnOp = "parseBatchResponse"
    /\ fnData.hasContent
    /\ Len(fnTexts) = 2
    /\ Len(PiecesOf(fnData.content)) = 2
    /\ fnOut[1].translatedText = <<"a", Space, "a">>
    /\ fnOut[2].translatedText = <<"a">>

\* C11: parseBatchResponse never raises: whatever the response holds (no
\* choices, no message, a content that is no text, too few or too many
\* pieces) it returns one result per request of the batch, each the request
\* with its own piece or its own originalText; pieces beyond the batch are
\* dropped, and a response without a text content echoes every request.
C11_ParseNeverRaises ==
    (fnPc = "done" /\ fnOp = "parseBatchResponse") =>
        /\ ~fnRaised
        /\ Len(fnOut) = Len(fnTexts)
        /\ \A k \in 1..Len(fnTexts) :
              /\ fnOut[k].field = fnTexts[k].field
              /\ fnOut[k].itemId = fnTexts[k].itemId
              /\ fnOut[k].originalText = fnTexts[k].originalText
              /\ \/ fnOut[k].translatedText = fnTexts[k].originalText
                 \/ /\ fnData.hasContent
                    /\ k <= Len(PiecesOf(Trim(fnData.content)))
                    /\ fnOut[k].translatedText = Trim(PiecesOf(Trim(fnData.content))[k])
        /\ ~fnData.hasContent =>
              \A k \in 1..Len(fnTexts) : fnOut[k].translatedText = fnTexts[k].originalText

C11_Witness ==
    /\ fnPc = "done"
    /\ fnOp = "parseBatchResponse"
    /\ fnData.shape = "no_choices"
    /\ Len(fnTexts) = 2
    /\ Len(fnOut) = 2
    /\ fnOut[2].translatedText = fnTexts[2].originalText

\* C12: every result batchTranslate holds has a translatedText that is not
\* empty, when every originalText of the input is not empty, whatever the
\* endpoint did: a failed call, an empty content, a blank piece between two
\* delimiters.
C12_TranslatedTextNeverEmpty ==
    (\A k \in 1..Len(texts) : texts[k].originalText # <<>>) =>
        \A k \in 1..Len(results) : results[k].translatedText # <<>>

C12_Witness ==
    /\ btPc = "returned"
    /\ Len(outcomes) = 3
    /\ IsFailure(outcomes[1])
    /\ outcomes[2].kind = "ok" /\ outcomes[2].body.shape = "empty"
    /\ outcomes[3].kind = "ok" /\ outcomes[3].body.shape = "blank"
    /\ Len(results) = Len(texts)
    /\ \A k \in 1..Len(results) : results[k].translatedText # <<>>

\* C13: validateFieldsForTranslation never emits a request whose originalText
\* is empty or only whitespace, whatever the record (blank, whitespace-only
\* or missing title, tags or body), the selection and the record type.
C13_NoBlankRequest ==
    (fnPc = "done" /\ fnOp = "validateFieldsForTranslation") =>
        \A k \in 1..Len(fnOut) : Trim(fnOut[k].originalText) # <<>>

\* C14: validateFieldsForTranslation emits a request for a field only if the
\* flag of that field in selectedFields is true, never for a flag that is
\* false or absent; a record type it does not know yields no request.
C14_OnlySelectedFields ==
    (fnPc = "done" /\ fnOp = "validateFieldsForTranslation") =>
        /\ \A k \in 1..Len(fnOut) : fnArgs.selectedFields[fnOut[k].field] = "true"
        /\ fnArgs.itemType \notin Kinds => fnOut = <<>>

C14_Witness ==
    /\ fnPc = "done"
    /\ fnOp = "validateFieldsForTranslation"
    /\ fnArgs.itemType = "product"
    /\ fnArgs.selectedFields["title"] = "true"
    /\ fnArgs.selectedFields["description"] = "absent"
    /\ fnArgs.selectedFields["tags"] = "false"
    /\ fnArgs.item.title = Str(<<"a">>)
    /\ fnArgs.item.tags = Str(<<"a">>)
    /\ fnArgs.item.body_html = Str(<<Tag("<b>"), Text(<<"a">>)>>)
    /\ Len(fnOut) = 1
    /\ fnOut[1].field = "title"

\* C15: a click on a translate button (products, collections, pages, widgets)
\* with no field ticked or no entry ticked is rejected: the handler logs an
\* error and returns, no request goes to the content store or to the
\* translation endpoint, and the loading state, the counters, the job and the
\* lists stay as they were.
C15_InvalidRequestRejected ==
    [][(/\ clicks' # clicks
        /\ lastClick'.button \in {"translate", "widgets"}
        /\ (~lastClick'.hasSelectedFields \/ lastClick'.noneSelected)) =>
            /\ lastClick'.error # "none"
            /\ UNCHANGED <<loading, hPc, svcVars, btVars, envVars, jobVars, storeVars,
                           awaited, listed>>]_vars

C15_Witness ==
    /\ lastClick = Click("translate", TRUE, TRUE, "items")
    /\ isConnected
    /\ listed["product"] = Items
    /\ ~loading
    /\ jobStatus = "none"
    /\ clicks["translate"] = 1

\* C16: every call to the translation endpoint goes through a rate governor
\* of the translation API: the pacing check runs before the call, and the
\* remaining allowance and the time of the last call are updated after it.
C16_TranslationCallsGoverned ==
    /\ \A k \in 1..Len(sent) : sent[k].paced
    /\ \A k \in 1..Len(outcomes) : outcomes[k].rateUpdated

\* C17: totalTokensUsed and requestCount never decrease, whatever calls
\* succeed or fail and however many runs there are; a step that makes one of
\* them smaller is resetStats: it sets both to 0 and touches nothing else.
C17_CountersMonotonic ==
    [][(totalTokensUsed' < totalTokensUsed \/ requestCount' < requestCount) =>
            /\ totalTokensUsed' = 0
            /\ requestCount' = 0
            /\ UNCHANGED <<apiKey, btVars, envVars, fnVars, appVars>>]_vars

C17_Witness ==
    /\ totalTokensUsed = 3
    /\ requestCount = 1
    /\ Len(outcomes) = 3
    /\ outcomes[1].kind = "ok" /\ outcomes[1].body.hasUsage
    /\ IsFailure(outcomes[2])
    /\ outcomes[3].kind = "ok" /\ outcomes[3].body.hasUsage

\* the latest answer of the endpoint, in a step that records one
Answered == Len(outcomes') = Len(outcomes) + 1
LastAnswer == outcomes'[Len(outcomes')]

\* the answers with a 2xx status: a body that parses, one that does not, null
Is2xx(o) == o.kind \in {"ok", "invalid_json", "null_body"}

\* C18: after every 2xx answer of the translation endpoint requestCount has
\* grown by exactly 1 and totalTokensUsed by the total token count of that
\* answer.
C18_Every2xxCounted ==
    [][(Answered /\ Is2xx(LastAnswer)) =>
            /\ requestCount' = requestCount + 1
            /\ totalTokensUsed' = totalTokensUsed + LastAnswer.body.total_tokens]_vars

\* C18, as the code has it: an answer whose body holds a usage object adds 1 to
\* requestCount and its total token count to totalTokensUsed; any other
\* answer, 2xx or not, changes neither.
C18_UsageAnswersCounted ==
    [][Answered =>
            IF LastAnswer.kind = "ok" /\ LastAnswer.body.hasUsage
            THEN /\ requestCount' = requestCount + 1
                 /\ totalTokensUsed' = totalTokensUsed + LastAnswer.body.total_tokens
            ELSE /\ requestCount' = requestCount
                 /\ totalTokensUsed' = totalTokensUsed]_vars

C18_Witness ==
    /\ Len(outcomes) = 2
    /\ outcomes[1].kind = "ok" /\ ~outcomes[1].body.hasUsage
    /\ outcomes[2].kind = "ok" /\ outcomes[2].body.hasUsage
    /\ runs = 1
    /\ requestCount = 1
    /\ totalTokensUsed = 3

\* the restoreHTML call that has returned, its markup and its kept text nodes
RestoreDone == fnPc = "done" /\ fnOp = "restoreHTML"

OriginalKept == KeptTextNodes(fnArgs.originalHTML)

\* C19 as stated: with exactly one non-whitespace text node restoreHTML
\* returns the markup with that node's content replaced by translatedText,
\* and with zero or two or more such nodes it returns the original markup
\* unchanged, symbol for symbol.
C19_OriginalReturnedUnchanged ==
    RestoreDone =>
        IF Cardinality(OriginalKept) = 1
        THEN \A k \in OriginalKept : fnOut[k] = Text(fnArgs.translatedText)
        ELSE fnOut = fnArgs.originalHTML

\* C19: restoreHTML returns the markup as the document writes it back: the
\* same nodes in the same order, every tag under the name the parser knows it
\* by, every text node with its original content, except that the only
\* non-whitespace text node (when there is exactly one) holds translatedText.
C19_RestoredAsParsed ==
    RestoreDone =>
        /\ Len(fnOut) = Len(fnArgs.originalHTML)
        /\ \A k \in 1..Len(fnOut) :
            /\ fnOut[k].kind = fnArgs.originalHTML[k].kind
            /\ fnOut[k].kind = "tag" =>
                    fnOut[k].text = <<LowerCase(fnArgs.originalHTML[k].text[1])>>
            /\ fnOut[k].kind = "text" =>
                    fnOut[k].text =
                        IF OriginalKept = {k} THEN fnArgs.translatedText
                        ELSE fnArgs.originalHTML[k].text

\* two non-whitespace text nodes around a tag written in upper case: nothing
\* is replaced and the markup does not come back as it was written
C19_Witness ==
    /\ RestoreDone
    /\ Cardinality(OriginalKept) = 2
    /\ \E k \in 1..Len(fnArgs.originalHTML) : fnArgs.originalHTML[k] = Tag("<B>")
    /\ fnOut # fnArgs.originalHTML
    /\ textContent(fnOut) = textContent(fnArgs.originalHTML)

\* ceil(n / 10)
CallsFor(n) == (n + 9) \div 10

\* C20: a batchTranslate run over n requests issues exactly one upstream call
\* per batch: the k-th call of a run carries batch k and between 1 and 10
\* texts, no batch is sent a second time whatever its answer was, and a run
\* that has returned has made ceil(n / 10) calls.
C20_OneCallPerBatch ==
    /\ \A k \in 1..Len(sent) :
        /\ sent[k].batch = k
        /\ Len(sent[k].texts) \in 1..10
    /\ Len(sent) <= CallsFor(Len(texts))
    /\ Len(outcomes) <= Len(sent)
    /\ btPc = "returned" =>
        /\ Len(sent) = CallsFor(Len(texts))
        /\ Len(outcomes) = Len(sent)

\* 21 requests, the second batch failed: three calls of 10, 10 and 1 texts
C20_Witness ==
    /\ btPc = "returned"
    /\ Len(texts) = 21
    /\ Len(sent) = 3
    /\ IsFailure(outcomes[2])
    /\ <<Len(sent[1].texts), Len(sent[2].texts), Len(sent[3].texts)>> = <<10, 10, 1>>

\* C21: batches go to the endpoint strictly in partition order and one at a
\* time: the k-th call carries the k-th slice of ten of the request list, at
\* most one call is unanswered, and a call is issued only when every earlier
\* call of the run has been answered (with a success or a failure).
C21_OneBatchAtATimeInOrder ==
    /\ openaiInFlight <= 1
    /\ openaiInFlight = Len(sent) - Len(outcomes)
    /\ \A k \in 1..Len(sent) :
        /\ sent[k].batch = k
        /\ sent[k].texts = SubSeq(texts, FirstOf(k), LastOf(k))
    /\ btPc = "await" <=> openaiInFlight = 1

\* 25 requests: three calls of 10, 10 and 5 texts, the third one unanswered,
\* the first one answered with a failure
C21_Witness ==
    /\ Len(texts) = 25
    /\ Len(sent) = 3
    /\ <<Len(sent[1].texts), Len(sent[2].texts), Len(sent[3].texts)>> = <<10, 10, 5>>
    /\ Len(outcomes) = 2
    /\ IsFailure(outcomes[1])
    /\ ~IsFailure(outcomes[2])
    /\ openaiInFlight = 1

\* a step in which caller o's fetch is called
Dispatched(o) == storeCalls[o].st # "fetching" /\ storeCalls'[o].st = "fetching"

\* a step in which the handler, the only caller, gets past the isConnected
\* check of makeRequest
EntersAlone ==
    /\ \A o \in Owners : storeCalls[o].st = "idle"
    /\ storeCalls'["handler"].st # "idle"

\* a step in which the timer of the handler, the only caller, fires
ResumesAlone ==
    /\ storeCalls["handler"].st = "waiting"
    /\ storeCalls["handler"].alone
    /\ storeCalls'["handler"].st = "fetching"

\* C22: for a single sequential caller waitForRateLimit suspends the call if
\* and only if rateLimitRemaining <= 2 and less than 1000 ms have passed since
\* lastRequestTime; the timer is set to 1000 ms minus the elapsed time and
\* fires after exactly that long; and lastRequestTime becomes the moment the
\* call goes on to fetch (and is left alone while the call is suspended).
C22_WaitsIffLowAndRecent ==
    [][/\ EntersAlone =>
            LET elapsed == now - lastRequestTime
                call == storeCalls'["handler"]
            IN  /\ call.st = "waiting" <=> (rateLimitRemaining <= 2 /\ elapsed < 1000)
                /\ call.st = "waiting" =>
                        /\ call.wakeAt - now = 1000 - elapsed
                        /\ lastRequestTime' = lastRequestTime
                /\ call.st = "fetching" => lastRequestTime' = now
       /\ ResumesAlone =>
            LET call == storeCalls["handler"]
            IN  /\ now - call.enteredAt = 1000 - (call.enteredAt - call.lastSeen)
                /\ lastRequestTime' = now]_vars

\* the handler's call was suspended 500 ms after the previous request with an
\* allowance of 2, and its 500 ms are over
C22_Witness ==
    /\ storeCalls["handler"].st = "waiting"
    /\ storeCalls["handler"].alone
    /\ storeCalls["handler"].remainingSeen = 2
    /\ storeCalls["handler"].enteredAt - storeCalls["handler"].lastSeen = 500
    /\ now = storeCalls["handler"].enteredAt + 500
    /\ now = storeCalls["handler"].wakeAt

\* a step in which a fetch is answered or fails
FetchSettles == \E o \in Owners : storeCalls[o].st = "fetching" /\ storeCalls'[o].st = "idle"

\* C23: when a fetch is answered, updateRateLimit does not raise (a 2xx answer
\* resolves the call), rateLimitRemaining becomes total minus used of the
\* answer's rate-limit header, stays as it was when the answer has no such
\* header, and lastRequestTime is not touched.
C23_RateLimitFromHeader ==
    [][FetchSettles =>
        /\ lastRequestTime' = lastRequestTime
        /\ storeSeen'.outcome = "ok" => storeSeen'.settled = "resolved"
        /\ rateLimitRemaining' =
              IF storeSeen'.outcome # "network_error" /\ storeSeen'.header.present
              THEN storeSeen'.header.total - storeSeen'.header.used
              ELSE rateLimitRemaining]_vars

\* an answer without the header came after an answer that had lowered the
\* allowance to 2: it is still 2
C23_Witness ==
    /\ storeSeen.answered # "nobody"
    /\ storeSeen.outcome = "ok"
    /\ storeSeen.settled = "resolved"
    /\ ~storeSeen.header.present
    /\ rateLimitRemaining = 2
    /\ lastRequestTime > 0

\* C26: while rateLimitRemaining <= 2 (at every moment since the previous
\* request went out), a request is dispatched at least 1000 ms after the
\* previous one, whichever callers the two requests belong to.
C26_LowAllowanceSpacing ==
    [][\A o \in Owners :
        (Dispatched(o) /\ rateLimitRemaining <= 2 /\ ~storeSeen.lifted)
            => now - lastRequestTime >= 1000]_vars

\* a step in which a request other than the probe gets past the isConnected
\* check, or goes out to the store
Admitted(o) ==
    /\ storeCalls'[o].endpoint \notin {"none", "shop"}
    /\ \/ storeCalls[o].st = "idle" /\ storeCalls'[o].st # "idle"
       \/ Dispatched(o)

\* C27: after a connect attempt has failed and until a later one succeeds, no
\* request other than the shop.json probe is admitted or sent: each is refused
\* with 'Not connected to store', also when an earlier connect had succeeded.
C27_RefusedAfterFailedConnect ==
    [][\A o \in Owners : Admitted(o) => storeSeen.connect # "failed"]_vars

\* C24: a batchTranslate run that has gone into its loop returns in the end,
\* with every batch sent and answered and one result per request, whatever
\* setApiKey and resetStats calls come in between -- given that every fetch
\* is answered or fails and every timer fires.
C24_RunAlwaysReturns ==
    (btPc \in {"await", "delay"})
        ~> (/\ btPc = "returned"
            /\ Len(sent) = Len(batches)
            /\ Len(outcomes) = Len(batches)
            /\ Len(results) = Len(texts))

\* a run of three batches has returned although resetStats was called while
\* it ran: three counted answers, a count of one
C24_Witness ==
    /\ btPc = "returned"
    /\ runs = 1
    /\ Len(batches) = 3
    /\ Len(outcomes) = 3
    /\ \A k \in 1..3 : outcomes[k].kind = "ok" /\ outcomes[k].body.hasUsage
    /\ requestCount = 1

\* C25: an exception raised by window.updateProgress after a batch was decoded
\* does not change the result list: when batchTranslate returns there is one
\* result per request, request k at position k, whether or not the progress
\* handler raises.
C25_ProgressExceptionHarmless ==
    btPc = "returned" =>
        /\ Len(results) = Len(texts)
        /\ \A k \in 1..Len(texts) :
              /\ results[k].field = texts[k].field
              /\ results[k].itemId = texts[k].itemId

\* a step in which a click gets past the checks before the handler's try block
HandlerStarts ==
    \E b \in Buttons : clicks'[b] = clicks[b] + 1 /\ lastClick'.error = "none"

\* C28: at most one handler is in flight: a handler starts only while the
\* loading state is false and no handler is running, the loading state is true
\* exactly while a handler is between its first await and its finally block,
\* and every way out of a handler (success, error, demo mode) leaves it false.
C28_OneHandlerInFlight ==
    [][/\ HandlerStarts => (~loading /\ hPc = "idle")
       /\ loading' <=> hPc' # "idle"
       /\ (hPc # "idle" /\ hPc' = "idle") => ~loading']_vars

\* a translate job has ended in its catch block after a connect that had
\* succeeded: both handlers are over and the buttons are enabled again
C28_Witness ==
    /\ clicks["connect"] = 1
    /\ clicks["translate"] = 1
    /\ jobStatus = "failed"
    /\ hPc = "idle"
    /\ ~loading

\* the entries of a job's log up to position k that are fetches of a record
FetchesUpTo(log, k) == Cardinality({j \in 1..k : log[j][1] = "get"})

\* entry k of the log is in its place: a record is fetched first, in selection
\* order and after the previous record is done; it is then found empty, or
\* translated, then written, then acknowledged
InPlace(log, ids, k) ==
    LET what == log[k][1]
        before == IF k = 1 THEN <<"start", 0>> ELSE log[k - 1]
    IN  CASE what = "get" ->
                /\ before[1] \in {"start", "empty", "written"}
                /\ FetchesUpTo(log, k) <= Len(ids)
                /\ log[k][2] = ids[FetchesUpTo(log, k)]
          [] what = "empty" -> before = <<"get", log[k][2]>>
          [] what = "translate" -> before = <<"get", log[k][2]>>
          [] what = "put" -> before = <<"translate", log[k][2]>>
          [] what = "written" -> before = <<"put", log[k][2]>>
          [] what = "error" -> k = Len(log)

\* a step that adds an entry of this kind to the job's log
Logs(what) ==
    /\ Len(jobLog') = Len(jobLog) + 1
    /\ jobLog'[Len(jobLog')][1] = what

\* C29: a job handles its records one at a time in selection order, each as
\* fetch, extract, translate, write: the write of a record is issued only
\* after its batchTranslate has returned, and a record whose extraction yields
\* no request gets neither a translation run nor a write.
C29_ItemsInOrder ==
    [][/\ \A k \in 1..Len(jobLog') : InPlace(jobLog', jobIds', k)
       /\ Logs("put") => btPc = "returned"
       /\ Logs("translate") => runs' = runs + 1
       /\ Logs("empty") => (runs' = runs /\ sent' = sent /\ btPc' = btPc)]_vars

\* two records: the first had nothing to translate, the second was fetched,
\* translated and written
C29_Witness ==
    /\ jobStatus = "completed"
    /\ jobIds = <<1, 2>>
    /\ jobLog = <<<<"get", 1>>, <<"empty", 1>>, <<"get", 2>>, <<"translate", 2>>,
                  <<"put", 2>>, <<"written", 2>>>>

\* the fetch failed or was answered with a status outside 2xx
NoSuccess(o) == o.kind \in {"network_error", "http_error"}

\* C30: a batch whose fetch fails with a network error or is answered with a
\* non-2xx status leaves totalTokensUsed and requestCount as they were, and
\* the counters only ever grow in the step of a 2xx answer: after a run they
\* count nothing but batches whose calls succeeded.
C30_FailedBatchNotCounted ==
    [][/\ (Answered /\ NoSuccess(LastAnswer)) =>
            (totalTokensUsed' = totalTokensUsed /\ requestCount' = requestCount)
       /\ (totalTokensUsed' > totalTokensUsed \/ requestCount' > requestCount) =>
            (Answered /\ LastAnswer.kind = "ok")]_vars

\* three batches, the second answered with a non-2xx status, the other two
\* with usage: two requests counted
C30_Witness ==
    /\ btPc = "returned"
    /\ runs = 1
    /\ Len(outcomes) = 3
    /\ outcomes[2].kind = "http_error"
    /\ outcomes[1].kind = "ok" /\ outcomes[1].body.hasUsage
    /\ outcomes[3].kind = "ok" /\ outcomes[3].body.hasUsage
    /\ requestCount = 2
    /\ totalTokensUsed = 6

====
